---- MODULE Spec2Model ----
(***************************************************************************)
(* Recipe Explorer: the file-backed persistence layer.                     *)
(*   cache.js     (src/src/api.js, lines 164-316): the TTL cache document  *)
(*   favorites.js (src/src/favorites.js): the favorites document           *)
(* Every call of an async function is a process that suspends at each      *)
(* await; between two awaits its code runs without interruption (one turn  *)
(* of the event loop). A file operation takes effect when its await ends.  *)
(***************************************************************************)
EXTENDS Integers, Sequences, FiniteSets, TLC

\* ------------------------------------------------------------------ bounds
\* number of calls started in one run
MaxCalls == 2
\* number of clock advances in one run
MaxTicks == 2
\* largest attempts argument given to getMealById
MaxAttempts == 3

\* ------------------------------------------------------- program constants
\* const CACHE_DURATION = 24 * 60 * 60 * 1000
CACHE_DURATION == 24 * 60 * 60 * 1000
\* the clock advances in steps of half the cache duration, so that an entry is
\* seen at ages 0, TTL/2 and TTL (the boundary)
ClockStep == CACHE_DURATION \div 2

\* two calls can be in flight at once
Procs == {"p1", "p2"}
Keys == {"k1", "k2"}
\* values a fetchFn of the application resolves to: a recipe, or null
\* (getMealById / getRandomMeal when nothing was found or the request failed)
Null == "null"
Payloads == {"meal", Null}
\* JavaScript truthiness of a payload: null is falsy; an object, an array (the
\* empty one too) and a non-empty string are truthy
TruthyNonEmpty(v) == v \notin {Null, "[]"}
Truthy(v) == v # Null
\* the outcome of a call that ended by throwing
Threw == "threw"

\* cache[key] of a key the document does not hold (undefined)
NoEntry == [timestamp |-> -1, data |-> "undefined"]
\* JSON.stringify({})
EmptyCache == [k \in Keys |-> NoEntry]
\* the cache file: absent, unparseable, or the JSON text of a document
AbsentFile == [st |-> "absent", doc |-> EmptyCache]
CorruptFile == [st |-> "corrupt", doc |-> EmptyCache]
JsonFile(d) == [st |-> "ok", doc |-> d]

\* recipes the application can add to the favorites: idMeal identifies one,
\* strMeal stands for the rest of its attributes
Ids == {"52772", "52773", "52774"}
Recipes == {[idMeal |-> "52772", strMeal |-> "Teriyaki Chicken"],
            [idMeal |-> "52772", strMeal |-> "Chicken Teriyaki"],
            [idMeal |-> "52773", strMeal |-> "Honey Salmon"]}
NoRecipe == [idMeal |-> "none", strMeal |-> "none"]
\* the favorites file: absent, unparseable, or the JSON text of an array
AbsentFavorites == [st |-> "absent", list |-> <<>>]
CorruptFavorites == [st |-> "corrupt", list |-> <<>>]
JsonFavorites(l) == [st |-> "ok", list |-> l]

VARIABLES
    now,          \* Date.now()
    calls,        \* calls started so far
    cacheFile,    \* content of data/cache.json
    favFile,      \* content of data/favorites.json
    lastStored,   \* per key: the latest timestamp a successful write stored for it
    proc,         \* per process: where its call is, its arguments and locals
    conc          \* per process: the processes whose call overlapped its call

vars == <<now, calls, cacheFile, favFile, lastStored, proc, conc>>

\* A process that has made no call yet. While a call runs: pc is the await it
\* is suspended at ("idle" between calls) and op the exported function;
\* key, data, force, recipe, recipeId are its arguments (data is also const
\* freshData); cache and favorites are the documents it parsed; removedCount
\* its counter. About the call it records: ret, what it returned (retList when
\* that is a list or a record); saved, what saveToCache returned to
\* getCachedOrFetch; invoked, how often it called fetchFn; fetchFailed, whether
\* fetchFn failed; coFetch, whether another call awaited fetchFn for the same
\* key while this one did; stamp, the Date.now() it put in its entry; wrote,
\* whether it wrote the file; freshAtCall, whether a fresh entry for key
\* existed when it began. For getMealById: attempts is the parameter of the
\* current (recursive) call and asked that of the application's call; requests
\* counts its calls of fetch, failures those that failed, failedAt is the time
\* of the last failure.
NoCall ==
    [pc |-> "idle", op |-> "none", key |-> "k1", data |-> Null, force |-> FALSE,
     recipe |-> NoRecipe, recipeId |-> "none",
     cache |-> EmptyCache, favorites |-> <<>>, removedCount |-> 0,
     ret |-> "none", retList |-> <<>>, saved |-> "none", invoked |-> 0,
     fetchFailed |-> FALSE, coFetch |-> FALSE,
     stamp |-> -1, wrote |-> FALSE, freshAtCall |-> FALSE,
     attempts |-> 0, asked |-> 0, requests |-> 0, failures |-> 0, failedAt |-> -1]

\* --------------------------------------------------------- pure functions
\* cache[key] && Date.now() - cache[key].timestamp < CACHE_DURATION
IsFreshInclusive(e, t) == e # NoEntry /\ t - e.timestamp <= CACHE_DURATION
IsFresh(e, t) == e # NoEntry /\ t - e.timestamp < CACHE_DURATION

\* whether fs.readFile and JSON.parse succeed on the file
Readable(f) == f.st = "ok"

\* getFromCache: the value it returns on file f at time t
GetFromCacheResult(f, k, t) ==
    IF Readable(f) /\ IsFresh(f.doc[k], t) THEN f.doc[k].data ELSE Null

\* cache[key] = { timestamp: Date.now(), data: data }
UpsertAlone(d, k, t, v) == [EmptyCache EXCEPT ![k] = [timestamp |-> t, data |-> v]]
UpsertKeepsTimestamp(d, k, t, v) ==
    [d EXCEPT ![k] = [timestamp |-> IF d[k] = NoEntry THEN t ELSE d[k].timestamp,
                      data |-> v]]
Upsert(d, k, t, v) == [d EXCEPT ![k] = [timestamp |-> t, data |-> v]]

\* the for...in loop of clearExpiredCache: delete cache[key] when expired
ExpiredStrict(e, t) == e # NoEntry /\ t - e.timestamp > CACHE_DURATION
Expired(e, t) == e # NoEntry /\ t - e.timestamp >= CACHE_DURATION
SweepDoc(d, t) == [k \in Keys |-> IF Expired(d[k], t) THEN NoEntry ELSE d[k]]
SweepCount(d, t) == Cardinality({k \in Keys : Expired(d[k], t)})

\* favorites.some(fav => fav.idMeal === id)
SomeNever(favs, id) == FALSE
SomeFirst(favs, id) == Len(favs) > 0 /\ favs[1].idMeal = id
Some(favs, id) == \E i \in 1..Len(favs) : favs[i].idMeal = id

\* favorites.push(recipe)
PushFront(favs, r) == <<r>> \o favs
Push(favs, r) == Append(favs, r)

\* favorites.filter(fav => fav.idMeal !== id)
FilterReversed(favs, id) ==
    LET kept == SelectSeq(favs, LAMBDA fav : fav.idMeal # id) IN
    [i \in 1..Len(kept) |-> kept[Len(kept) + 1 - i]]
Filter(favs, id) == SelectSeq(favs, LAMBDA fav : fav.idMeal # id)

\* favorites.find(fav => fav.idMeal === id): the first match, as a list of
\* at most one record
Find(favs, id) ==
    IF Some(favs, id)
    THEN <<favs[CHOOSE i \in 1..Len(favs) :
                  /\ favs[i].idMeal = id
                  /\ \A j \in 1..(i - 1) : favs[j].idMeal # id]>>
    ELSE <<>>

\* whether fs.readFile and JSON.parse succeed on the favorites file
ReadableFavorites(f) == f.st = "ok"

\* getFavorites: the list it returns on file f ([] when it cannot be read)
GetFavoritesResult(f) == IF ReadableFavorites(f) THEN f.list ELSE <<>>

\* isInFavorites: the value it returns on file f
IsInFavoritesResult(f, id) == Some(GetFavoritesResult(f), id)

\* ------------------------------------------------------------------- Init
InitCacheFiles ==
    {AbsentFile, CorruptFile, JsonFile(EmptyCache),
     JsonFile(Upsert(EmptyCache, "k1", 0, "meal"))}

InitFavFiles ==
    {AbsentFavorites, CorruptFavorites, JsonFavorites(<<>>),
     JsonFavorites(<<[idMeal |-> "52772", strMeal |-> "Teriyaki Chicken"]>>),
     JsonFavorites(<<[idMeal |-> "52773", strMeal |-> "Honey Salmon"],
                     [idMeal |-> "52772", strMeal |-> "Teriyaki Chicken"]>>),
     JsonFavorites(<<[idMeal |-> "52773", strMeal |-> "Honey Salmon"],
                     [idMeal |-> "52772", strMeal |-> "Teriyaki Chicken"],
                     [idMeal |-> "52774", strMeal |-> "Pad See Ew"]>>)}

\* the cache document in any state, the favorites file not yet created
Init ==
    /\ now = 0
    /\ calls = 0
    /\ cacheFile \in InitCacheFiles
    /\ favFile = AbsentFavorites
    /\ lastStored = [k \in Keys |-> cacheFile.doc[k].timestamp]
    /\ proc = [p \in Procs |-> NoCall]
    /\ conc = [p \in Procs |-> {}]

\* ------------------------------------------------------------ bookkeeping
InFlight(p) == proc[p].pc # "idle"

\* a call begins on process p and runs to its first await: c is the process
\* there
Begin(p, c) ==
    /\ ~InFlight(p)
    /\ calls < MaxCalls
    \* the processes are interchangeable slots: the first call runs on p1
    /\ p = "p2" => proc["p1"].op # "none"
    /\ calls' = calls + 1
    /\ proc' = [proc EXCEPT ![p] = c]
    /\ conc' = [q \in Procs |->
                  IF q = p THEN {r \in Procs \ {p} : InFlight(r)}
                  ELSE IF InFlight(q) THEN conc[q] \cup {p}
                  ELSE conc[q] \ {p}]
    /\ UNCHANGED <<now, cacheFile, favFile, lastStored>>

\* the same for a call whose first await is fetchFn(): the calls awaiting
\* fetchFn() for the same key are noted
BeginFetching(p, c) ==
    /\ ~InFlight(p)
    /\ calls < MaxCalls
    /\ p = "p2" => proc["p1"].op # "none"
    /\ calls' = calls + 1
    /\ LET co == {q \in Procs \ {p} : proc[q].pc = "gcf_fetch" /\ proc[q].key = c.key} IN
       proc' = [q \in Procs |->
                  IF q = p THEN [c EXCEPT !.coFetch = co # {}]
                  ELSE IF q \in co THEN [proc[q] EXCEPT !.coFetch = TRUE]
                  ELSE proc[q]]
    /\ conc' = [q \in Procs |->
                  IF q = p THEN {r \in Procs \ {p} : InFlight(r)}
                  ELSE IF InFlight(q) THEN conc[q] \cup {p}
                  ELSE conc[q] \ {p}]
    /\ UNCHANGED <<now, cacheFile, favFile, lastStored>>

\* process p goes on to the await l
Goto(p, l) == proc' = [proc EXCEPT ![p].pc = l]

\* the call of process p is over: its locals are gone, the record of what it
\* returned stays
Over(c) ==
    [c EXCEPT !.pc = "idle", !.data = Null, !.cache = EmptyCache,
              !.favorites = <<>>, !.removedCount = 0, !.stamp = -1]

\* the call of process p returns r (or throws, r = Threw); sv is what
\* saveToCache returned inside it, if it ran
Return(p, r, sv) ==
    proc' = [proc EXCEPT ![p] = Over([proc[p] EXCEPT !.ret = r, !.saved = sv])]

\* the same, the call having written its file in this step
ReturnWritten(p, r, sv) ==
    proc' = [proc EXCEPT ![p] = Over([proc[p] EXCEPT !.ret = r, !.saved = sv,
                                                     !.wrote = TRUE])]

\* --------------------------------------------------- cache.js: the awaits
\* what saveToCache does when it is over: it returns ok to its caller, which is
\* the application or getCachedOrFetch (which drops it and returns freshData)
SaveToCacheReturnsOrThrows(p, ok) ==
    IF proc[p].op = "saveToCache"
    THEN IF ok THEN ReturnWritten(p, "true", "none") ELSE Return(p, "false", "none")
    ELSE IF ok THEN ReturnWritten(p, proc[p].data, "ok")
               ELSE Return(p, Threw, "fail")
SaveToCacheReturns(p, ok) ==
    IF proc[p].op = "saveToCache"
    THEN IF ok THEN ReturnWritten(p, "true", "none") ELSE Return(p, "false", "none")
    ELSE IF ok THEN ReturnWritten(p, proc[p].data, "ok")
               ELSE Return(p, proc[p].data, "fail")

\* await fs.access(CACHE_FILE), in initializeCache
InitializeCacheAccess(p) ==
    /\ proc[p].pc \in {"ic_access", "stc_access"}
    /\ IF cacheFile.st # "absent"
       THEN \* the file exists: initializeCache returns
            IF proc[p].pc = "ic_access"
            THEN Return(p, "undefined", "none")
            ELSE Goto(p, "stc_read")
       ELSE \* catch (err): mkdir, then writeFile
            Goto(p, IF proc[p].pc = "ic_access" THEN "ic_write" ELSE "stc_init_write")
    /\ UNCHANGED <<now, calls, cacheFile, favFile, lastStored, conc>>

\* await fs.writeFile(CACHE_FILE, JSON.stringify({})), in initializeCache: the
\* write replaces whatever the file holds by then
InitializeCacheWrite(p) ==
    /\ proc[p].pc \in {"ic_write", "stc_init_write"}
    /\ cacheFile' = JsonFile(EmptyCache)
    /\ IF proc[p].pc = "ic_write"
       THEN ReturnWritten(p, "undefined", "none")
       ELSE proc' = [proc EXCEPT ![p].pc = "stc_read", ![p].wrote = TRUE]
    /\ UNCHANGED <<now, calls, favFile, lastStored, conc>>

\* the same writeFile rejecting (EACCES, ENOSPC, ...): initializeCache throws,
\* saveToCache catches and returns false
InitializeCacheWriteFails(p) ==
    /\ proc[p].pc \in {"ic_write", "stc_init_write"}
    /\ IF proc[p].pc = "ic_write"
       THEN Return(p, Threw, "none")
       ELSE SaveToCacheReturns(p, FALSE)
    /\ UNCHANGED <<now, calls, cacheFile, favFile, lastStored, conc>>

\* const data = await fs.readFile(...) of getFromCache, and the rest of it
GetFromCacheReadEvicts(p) ==
    /\ proc[p].pc = "gfc_read"
    /\ cacheFile' = IF Readable(cacheFile) THEN JsonFile(SweepDoc(cacheFile.doc, now))
                                           ELSE cacheFile
    /\ Return(p, GetFromCacheResult(cacheFile, proc[p].key, now), "none")
    /\ UNCHANGED <<now, calls, favFile, lastStored, conc>>
GetFromCacheRead(p) ==
    /\ proc[p].pc = "gfc_read"
    /\ Return(p, GetFromCacheResult(cacheFile, proc[p].key, now), "none")
    /\ UNCHANGED <<now, calls, cacheFile, favFile, lastStored, conc>>

\* JSON.parse(await fs.readFile(...)) of saveToCache, then cache[key] = {...}
\* and the call of fs.writeFile with the serialized document
SaveToCacheRead(p) ==
    /\ proc[p].pc = "stc_read"
    /\ IF Readable(cacheFile)
       THEN proc' = [proc EXCEPT
                       ![p].cache = Upsert(cacheFile.doc, proc[p].key, now, proc[p].data),
                       ![p].stamp = now,
                       ![p].pc = "stc_write"]
       ELSE \* readFile or JSON.parse threw: catch { return false }
            SaveToCacheReturns(p, FALSE)
    /\ UNCHANGED <<now, calls, cacheFile, favFile, lastStored, conc>>

\* await fs.writeFile(CACHE_FILE, JSON.stringify(cache)); return true
SaveToCacheWriteSkipped(p) ==
    /\ proc[p].pc = "stc_write"
    /\ SaveToCacheReturns(p, TRUE)
    /\ UNCHANGED <<now, calls, cacheFile, favFile, lastStored, conc>>
SaveToCacheWrite(p) ==
    /\ proc[p].pc = "stc_write"
    /\ cacheFile' = JsonFile(proc[p].cache)
    /\ lastStored' = [lastStored EXCEPT
                        ![proc[p].key] = IF proc[p].stamp > @ THEN proc[p].stamp ELSE @]
    /\ SaveToCacheReturns(p, TRUE)
    /\ UNCHANGED <<now, calls, favFile, conc>>

\* the same writeFile rejecting: catch { return false }
SaveToCacheWriteFails(p) ==
    /\ proc[p].pc = "stc_write"
    /\ SaveToCacheReturns(p, FALSE)
    /\ UNCHANGED <<now, calls, cacheFile, favFile, lastStored, conc>>

\* readFile and JSON.parse of clearExpiredCache, the for...in loop, and the
\* call of fs.writeFile when removedCount > 0
ClearExpiredCacheRead(p) ==
    /\ proc[p].pc = "cec_read"
    /\ IF Readable(cacheFile) /\ SweepCount(cacheFile.doc, now) > 0
       THEN proc' = [proc EXCEPT
                       ![p].cache = SweepDoc(cacheFile.doc, now),
                       ![p].removedCount = SweepCount(cacheFile.doc, now),
                       ![p].pc = "cec_write"]
       ELSE \* nothing expired: return removedCount; unreadable: catch { return 0 }
            Return(p, ToString(0), "none")
    /\ UNCHANGED <<now, calls, cacheFile, favFile, lastStored, conc>>

\* await fs.writeFile(CACHE_FILE, JSON.stringify(cache)); return removedCount
ClearExpiredCacheWrite(p) ==
    /\ proc[p].pc = "cec_write"
    /\ cacheFile' = JsonFile(proc[p].cache)
    /\ ReturnWritten(p, ToString(proc[p].removedCount), "none")
    /\ UNCHANGED <<now, calls, favFile, lastStored, conc>>

\* the same writeFile rejecting: catch { return 0 }
ClearExpiredCacheWriteFails(p) ==
    /\ proc[p].pc = "cec_write"
    /\ Return(p, ToString(0), "none")
    /\ UNCHANGED <<now, calls, cacheFile, favFile, lastStored, conc>>

\* the other processes awaiting fetchFn() for key k
CoFetching(p, k) ==
    {q \in Procs \ {p} : proc[q].pc = "gcf_fetch" /\ proc[q].key = k}

\* cachedData = await getFromCache(key); if (cachedData) return cachedData;
\* otherwise fetchFn() is called
GetCachedOrFetchRead(p) ==
    /\ proc[p].pc = "gcf_read"
    /\ LET cachedData == GetFromCacheResult(cacheFile, proc[p].key, now) IN
       IF Truthy(cachedData)
       THEN Return(p, cachedData, "none")
       ELSE proc' = [q \in Procs |->
                       IF q = p
                       THEN [proc[p] EXCEPT !.pc = "gcf_fetch",
                                            !.invoked = proc[p].invoked + 1,
                                            !.coFetch = CoFetching(p, proc[p].key) # {}]
                       ELSE IF q \in CoFetching(p, proc[p].key)
                       THEN [proc[q] EXCEPT !.coFetch = TRUE]
                       ELSE proc[q]]
    /\ UNCHANGED <<now, calls, cacheFile, favFile, lastStored, conc>>

\* const freshData = await fetchFn(), the promise fulfilled with v; then
\* saveToCache(key, freshData) is called and runs to its first await
FetchResolves(p, v) ==
    /\ proc[p].pc = "gcf_fetch"
    /\ proc' = [proc EXCEPT ![p].data = v, ![p].pc = "stc_access"]
    /\ UNCHANGED <<now, calls, cacheFile, favFile, lastStored, conc>>

\* await fetchFn() rejected (or fetchFn threw): getCachedOrFetch has no catch,
\* the failure goes to its caller
FetchRejectsAndCaches(p) ==
    /\ proc[p].pc = "gcf_fetch"
    /\ proc' = [proc EXCEPT ![p].fetchFailed = TRUE, ![p].data = Null,
                            ![p].pc = "stc_access"]
    /\ UNCHANGED <<now, calls, cacheFile, favFile, lastStored, conc>>
FetchRejects(p) ==
    /\ proc[p].pc = "gcf_fetch"
    /\ proc' = [proc EXCEPT ![p] = Over([proc[p] EXCEPT !.ret = Threw,
                                                        !.fetchFailed = TRUE])]
    /\ UNCHANGED <<now, calls, cacheFile, favFile, lastStored, conc>>

\* ------------------------------------------------- cache.js: the calls
\* a call of function f of cache.js with arguments k, v, fr, suspended at l
\* after n invocations of fetchFn
CacheCall(f, k, v, fr, l, n) ==
    [NoCall EXCEPT !.pc = l, !.op = f, !.key = k, !.data = v, !.force = fr,
                   !.invoked = n,
                   !.freshAtCall = Readable(cacheFile) /\ IsFresh(cacheFile.doc[k], now)]

initializeCache(p) ==
    Begin(p, CacheCall("initializeCache", "k1", Null, FALSE, "ic_access", 0))
getFromCache(p, k) ==
    Begin(p, CacheCall("getFromCache", k, Null, FALSE, "gfc_read", 0))
saveToCache(p, k, v) ==
    Begin(p, CacheCall("saveToCache", k, v, FALSE, "stc_access", 0))
clearExpiredCache(p) ==
    Begin(p, CacheCall("clearExpiredCache", "k1", Null, FALSE, "cec_read", 0))
\* with forceRefresh the function reaches fetchFn() before its first await
getCachedOrFetch(p, k, fr) ==
    IF fr THEN BeginFetching(p, CacheCall("getCachedOrFetch", k, Null, TRUE, "gcf_fetch", 1))
          ELSE Begin(p, CacheCall("getCachedOrFetch", k, Null, FALSE, "gcf_read", 0))

\* time passes. A clock step is half a day: it passes between calls or while
\* a call awaits fetchFn, not within one file operation
Tick ==
    /\ now < MaxTicks * ClockStep
    /\ \A p \in Procs : proc[p].pc \in {"idle", "gcf_fetch"}
    /\ now' = now + ClockStep
    /\ UNCHANGED <<calls, cacheFile, favFile, lastStored, proc, conc>>

NextCache ==
    \/ Tick
    \/ \E p \in Procs : initializeCache(p)
    \/ \E p \in Procs, k \in Keys : getFromCache(p, k)
    \/ \E p \in Procs, k \in Keys, v \in Payloads : saveToCache(p, k, v)
    \/ \E p \in Procs : clearExpiredCache(p)
    \/ \E p \in Procs, k \in Keys, fr \in BOOLEAN : getCachedOrFetch(p, k, fr)
    \/ \E p \in Procs : InitializeCacheAccess(p)
    \/ \E p \in Procs : InitializeCacheWrite(p)
    \/ \E p \in Procs : InitializeCacheWriteFails(p)
    \/ \E p \in Procs : GetFromCacheRead(p)
    \/ \E p \in Procs : SaveToCacheRead(p)
    \/ \E p \in Procs : SaveToCacheWrite(p)
    \/ \E p \in Procs : SaveToCacheWriteFails(p)
    \/ \E p \in Procs : ClearExpiredCacheRead(p)
    \/ \E p \in Procs : ClearExpiredCacheWrite(p)
    \/ \E p \in Procs : ClearExpiredCacheWriteFails(p)
    \/ \E p \in Procs : GetCachedOrFetchRead(p)
    \/ \E p \in Procs, v \in Payloads : FetchResolves(p, v)
    \/ \E p \in Procs : FetchRejects(p)

SpecCache == Init /\ [][NextCache]_vars

\* ---------------------------------------------- favorites.js: the awaits
\* the favorites document in any state, the cache file not yet created
InitFav ==
    /\ now = 0
    /\ calls = 0
    /\ cacheFile = AbsentFile
    /\ favFile \in InitFavFiles
    /\ lastStored = [k \in Keys |-> -1]
    /\ proc = [p \in Procs |-> NoCall]
    /\ conc = [p \in Procs |-> {}]

\* await fs.access(FAVORITES_FILE), in initializeFavorites: called by the
\* application, first thing by addFavorite and removeFavorite ("if_"), and
\* first thing by getFavorites ("gf_")
InitializeFavoritesAccess(p) ==
    /\ proc[p].pc \in {"if_access", "gf_access"}
    /\ IF favFile.st # "absent"
       THEN \* the file exists: initializeFavorites returns
            IF proc[p].pc = "gf_access" THEN Goto(p, "gf_read")
            ELSE IF proc[p].op = "initializeFavorites"
            THEN Return(p, "undefined", "none")
            ELSE \* const favorites = await getFavorites()
                 Goto(p, "gf_access")
       ELSE \* catch (error): mkdir, then writeFile
            Goto(p, IF proc[p].pc = "if_access" THEN "if_write" ELSE "gf_write")
    /\ UNCHANGED <<now, calls, cacheFile, favFile, lastStored, conc>>

\* the rest of a function once getFavorites has returned favs to it
GetFavoritesReturns(p, favs) ==
    LET c == proc[p] IN
    CASE c.op = "getFavorites" ->
           proc' = [proc EXCEPT ![p] = Over([c EXCEPT !.ret = "list", !.retList = favs])]
      [] c.op = "addFavorite" ->
           IF Some(favs, c.recipe.idMeal)
           THEN Return(p, "false", "none")
           ELSE \* favorites.push(recipe), and the call of fs.writeFile
                proc' = [proc EXCEPT ![p].favorites = Push(favs, c.recipe),
                                     ![p].pc = "fav_write"]
      [] c.op = "removeFavorite" ->
           IF Len(favs) = Len(Filter(favs, c.recipeId))
           THEN Return(p, "false", "none")
           ELSE proc' = [proc EXCEPT ![p].favorites = Filter(favs, c.recipeId),
                                     ![p].pc = "fav_write"]
      [] c.op = "isInFavorites" ->
           Return(p, IF Some(favs, c.recipeId) THEN "true" ELSE "false", "none")
      [] c.op = "getFavoriteById" ->
           proc' = [proc EXCEPT ![p] =
                      Over([c EXCEPT !.ret = IF Some(favs, c.recipeId) THEN "found"
                                                                      ELSE Null,
                                     !.retList = Find(favs, c.recipeId)])]

\* await fs.writeFile(FAVORITES_FILE, JSON.stringify([])), in
\* initializeFavorites: the write replaces whatever the file holds by then
InitializeFavoritesWrite(p) ==
    /\ proc[p].pc \in {"if_write", "gf_write"}
    /\ favFile' = JsonFavorites(<<>>)
    /\ IF proc[p].pc = "gf_write"
       THEN proc' = [proc EXCEPT ![p].pc = "gf_read", ![p].wrote = TRUE]
       ELSE IF proc[p].op = "initializeFavorites"
       THEN ReturnWritten(p, "undefined", "none")
       ELSE proc' = [proc EXCEPT ![p].pc = "gf_access", ![p].wrote = TRUE]
    /\ UNCHANGED <<now, calls, cacheFile, lastStored, conc>>

\* the same writeFile rejecting: initializeFavorites throws; getFavorites
\* catches and returns []; addFavorite and removeFavorite catch and return false
InitializeFavoritesWriteFails(p) ==
    /\ proc[p].pc \in {"if_write", "gf_write"}
    /\ IF proc[p].pc = "gf_write"
       THEN GetFavoritesReturns(p, <<>>)
       ELSE IF proc[p].op = "initializeFavorites"
       THEN Return(p, Threw, "none")
       ELSE Return(p, "false", "none")
    /\ UNCHANGED <<now, calls, cacheFile, favFile, lastStored, conc>>

\* const data = await fs.readFile(...); return JSON.parse(data), in
\* getFavorites; catch (error) { return [] }
GetFavoritesRead(p) ==
    /\ proc[p].pc = "gf_read"
    /\ GetFavoritesReturns(p, IF ReadableFavorites(favFile) THEN favFile.list ELSE <<>>)
    /\ UNCHANGED <<now, calls, cacheFile, favFile, lastStored, conc>>

\* await fs.writeFile(FAVORITES_FILE, JSON.stringify(...)); return true, in
\* addFavorite and removeFavorite
FavoritesWrite(p) ==
    /\ proc[p].pc = "fav_write"
    /\ favFile' = JsonFavorites(proc[p].favorites)
    /\ ReturnWritten(p, "true", "none")
    /\ UNCHANGED <<now, calls, cacheFile, lastStored, conc>>

\* the same writeFile rejecting: catch (error) { return false }
FavoritesWriteThrows(p) ==
    /\ proc[p].pc = "fav_write"
    /\ Return(p, Threw, "none")
    /\ UNCHANGED <<now, calls, cacheFile, favFile, lastStored, conc>>
FavoritesWriteFails(p) ==
    /\ proc[p].pc = "fav_write"
    /\ Return(p, "false", "none")
    /\ UNCHANGED <<now, calls, cacheFile, favFile, lastStored, conc>>

\* ---------------------------------------------- favorites.js: the calls
\* a call of function f of favorites.js with arguments r, id, suspended at l
FavCall(f, r, id, l) ==
    [NoCall EXCEPT !.pc = l, !.op = f, !.recipe = r, !.recipeId = id]

initializeFavorites(p) ==
    Begin(p, FavCall("initializeFavorites", NoRecipe, "none", "if_access"))
getFavorites(p) == Begin(p, FavCall("getFavorites", NoRecipe, "none", "gf_access"))
addFavorite(p, r) == Begin(p, FavCall("addFavorite", r, r.idMeal, "if_access"))
removeFavorite(p, id) == Begin(p, FavCall("removeFavorite", NoRecipe, id, "if_access"))
isInFavorites(p, id) == Begin(p, FavCall("isInFavorites", NoRecipe, id, "gf_access"))
getFavoriteById(p, id) == Begin(p, FavCall("getFavoriteById", NoRecipe, id, "gf_access"))

NextFav ==
    \/ \E p \in Procs : initializeFavorites(p)
    \/ \E p \in Procs : getFavorites(p)
    \/ \E p \in Procs, r \in Recipes : addFavorite(p, r)
    \/ \E p \in Procs, id \in Ids : removeFavorite(p, id)
    \/ \E p \in Procs, id \in Ids : isInFavorites(p, id)
    \/ \E p \in Procs, id \in Ids : getFavoriteById(p, id)
    \/ \E p \in Procs : InitializeFavoritesAccess(p)
    \/ \E p \in Procs : InitializeFavoritesWrite(p)
    \/ \E p \in Procs : InitializeFavoritesWriteFails(p)
    \/ \E p \in Procs : GetFavoritesRead(p)
    \/ \E p \in Procs : FavoritesWrite(p)
    \/ \E p \in Procs : FavoritesWriteFails(p)

SpecFav == InitFav /\ [][NextFav]_vars

\* ----------------------------------- api.js: the fetch functions as fetchFn
\* the functions of api.js the application passes to getCachedOrFetch
Providers == {"searchMealsByName", "getMealById", "getMealsByIngredient"}
\* what happens upstream: the response lists meals, its meals field is null,
\* the request fails (every attempt of it, for getMealById), or the response
\* is not there when the timeout of getMealsByIngredient fires
Outcomes(fn) ==
    IF fn = "getMealsByIngredient" THEN {"found", "empty", "error", "timeout"}
                                   ELSE {"found", "empty", "error"}
\* the value the function resolves to: none of them rejects
ProviderResult(fn, outcome) ==
    CASE fn = "searchMealsByName" ->
           \* return data.meals || []; catch { return [] }
           IF outcome = "found" THEN "meals" ELSE "[]"
      [] fn = "getMealById" ->
           \* return data.meals ? data.meals[0] : null; catch { ... return null }
           IF outcome = "found" THEN "meal" ELSE Null
      [] fn = "getMealsByIngredient" ->
           \* .then(data => data.meals || []).catch(() => []), raced with the
           \* timeout; catch { return 'took too long' }
           IF outcome = "found" THEN "meals"
           ELSE IF outcome = "timeout" THEN "took too long" ELSE "[]"
\* the values a provider returns when the request failed or timed out
Fallbacks == {ProviderResult(fn, o) : fn \in Providers, o \in {"error", "timeout"}}

\* the cache as the application uses it: getCachedOrFetch with a provider as
\* fetchFn, on a cache file that exists
InitProviders ==
    /\ now = 0
    /\ calls = 0
    /\ cacheFile \in {JsonFile(EmptyCache), JsonFile(Upsert(EmptyCache, "k1", 0, "meal"))}
    /\ favFile = AbsentFavorites
    /\ lastStored = [k \in Keys |-> cacheFile.doc[k].timestamp]
    /\ proc = [p \in Procs |-> NoCall]
    /\ conc = [p \in Procs |-> {}]

NextProviders ==
    \/ Tick
    \* the key is derived from the request: one request is followed
    \/ \E p \in Procs, fr \in BOOLEAN : getCachedOrFetch(p, "k1", fr)
    \/ \E p \in Procs : GetCachedOrFetchRead(p)
    \/ \E p \in Procs, fn \in Providers :
         \E o \in Outcomes(fn) : FetchResolves(p, ProviderResult(fn, o))
    \/ \E p \in Procs : InitializeCacheAccess(p)
    \/ \E p \in Procs : SaveToCacheRead(p)
    \/ \E p \in Procs : SaveToCacheWrite(p)
    \/ \E p \in Procs : SaveToCacheWriteFails(p)

SpecProviders == InitProviders /\ [][NextProviders]_vars

\* ------------------------------------------------- api.js: getMealById
\* async function getMealById(id, attempts = 2)
DefaultAttempts == 2
\* setTimeout(resolve, 1000)
RETRY_DELAY == 1000
\* if (attempts > 1), in the catch block
ShouldRetryOffByOne(attempts) == attempts > 0
ShouldRetry(attempts) == attempts > 1

InitRetry ==
    /\ now = 0
    /\ calls = 0
    /\ cacheFile = AbsentFile
    /\ favFile = AbsentFavorites
    /\ lastStored = [k \in Keys |-> -1]
    /\ proc = [p \in Procs |-> NoCall]
    /\ conc = [p \in Procs |-> {}]

\* the application calls getMealById(id, n) (n = 2 when it gives no second
\* argument): the function runs to await fetch(...)
getMealById(p, n) ==
    Begin(p, [NoCall EXCEPT !.pc = "gmb_fetch", !.op = "getMealById",
                            !.attempts = n, !.asked = n, !.requests = 1])

\* await fetch(...) and await response.json() are over. o = "found": the
\* response lists the meal; "empty": its meals field is null; "error": fetch
\* rejected, the status was not ok, or the body was not JSON, and the catch
\* block runs
FetchResponds(p, o) ==
    /\ proc[p].pc = "gmb_fetch"
    /\ IF o # "error"
       THEN Return(p, ProviderResult("getMealById", o), "none")
       ELSE IF ShouldRetry(proc[p].attempts)
       THEN proc' = [proc EXCEPT ![p].pc = "gmb_wait",
                                 ![p].failures = proc[p].failures + 1,
                                 ![p].failedAt = now]
       ELSE proc' = [proc EXCEPT ![p] = Over([proc[p] EXCEPT
                                                !.ret = Null,
                                                !.failures = proc[p].failures + 1,
                                                !.failedAt = now])]
    /\ UNCHANGED <<now, calls, cacheFile, favFile, lastStored, conc>>

\* the timer of await new Promise(resolve => setTimeout(resolve, 1000)) fires,
\* no earlier than 1000 ms after it was set; return getMealById(id,
\* attempts - 1) then runs to its await fetch(...)
TimerFires(p) ==
    /\ proc[p].pc = "gmb_wait"
    /\ now' = IF now < proc[p].failedAt + RETRY_DELAY
              THEN proc[p].failedAt + RETRY_DELAY ELSE now
    /\ proc' = [proc EXCEPT ![p].pc = "gmb_fetch",
                            ![p].attempts = proc[p].attempts - 1,
                            ![p].requests = proc[p].requests + 1]
    /\ UNCHANGED <<calls, cacheFile, favFile, lastStored, conc>>

NextRetry ==
    \/ \E p \in Procs, n \in 1..MaxAttempts : getMealById(p, n)
    \/ \E p \in Procs, o \in Outcomes("getMealById") : FetchResponds(p, o)
    \/ \E p \in Procs : TimerFires(p)

\* every request is answered or fails, and every timer fires
SpecRetry ==
    /\ InitRetry
    /\ [][NextRetry]_vars
    /\ \A p \in Procs :
         /\ WF_vars(\E o \in Outcomes("getMealById") : FetchResponds(p, o))
         /\ WF_vars(TimerFires(p))

\* ------------------------------------------------ the two stores together
\* the functions cache.js and favorites.js export
CacheOps == {"initializeCache", "getFromCache", "saveToCache",
             "clearExpiredCache", "getCachedOrFetch"}
FavOps == {"initializeFavorites", "getFavorites", "addFavorite",
           "removeFavorite", "isInFavorites", "getFavoriteById"}

\* the functions of cache.js that read and write the document themselves
NextDocument ==
    \/ Tick
    \/ \E p \in Procs, k \in Keys : getFromCache(p, k)
    \/ \E p \in Procs, k \in Keys, v \in Payloads : saveToCache(p, k, v)
    \/ \E p \in Procs : clearExpiredCache(p)
    \/ \E p \in Procs : InitializeCacheAccess(p)
    \/ \E p \in Procs : InitializeCacheWrite(p)
    \/ \E p \in Procs : InitializeCacheWriteFails(p)
    \/ \E p \in Procs : GetFromCacheRead(p)
    \/ \E p \in Procs : SaveToCacheRead(p)
    \/ \E p \in Procs : SaveToCacheWrite(p)
    \/ \E p \in Procs : SaveToCacheWriteFails(p)
    \/ \E p \in Procs : ClearExpiredCacheRead(p)
    \/ \E p \in Procs : ClearExpiredCacheWrite(p)
    \/ \E p \in Procs : ClearExpiredCacheWriteFails(p)

\* a run exercises one of the two stores, which share no state: the cache
\* document on any cache file, or the favorites on any favorites file
InitStore == Init \/ InitFav
NextStore ==
    \/ /\ favFile = AbsentFavorites
       /\ \A p \in Procs : proc[p].op \in CacheOps \cup {"none"}
       /\ NextDocument
    \/ /\ cacheFile = AbsentFile /\ now = 0
       /\ \A p \in Procs : proc[p].op \in FavOps \cup {"none"}
       /\ NextFav

SpecStore == InitStore /\ [][NextStore]_vars

\* ------------------------------------------------------- cache: claims
IsGcf(p) == proc[p].op = "getCachedOrFetch"
Returned(p) == proc[p].pc = "idle" /\ proc[p].op # "none"
\* the call of p reported that it stored its entry
Stored(p) ==
    \/ proc[p].op = "saveToCache" /\ proc[p].ret = "true"
    \/ IsGcf(p) /\ proc[p].saved = "ok"

\* C1: while several getCachedOrFetch calls for one key, none forced, begun
\* with no fresh entry for the key, are at getFromCache or awaiting fetchFn,
\* fetchFn has been invoked at most once by all of them together, and once
\* when all of them are past getFromCache.
C1_SingleFlightOneInvocation ==
    \A p, q \in Procs :
        ( /\ p # q
          /\ IsGcf(p) /\ IsGcf(q)
          /\ proc[p].pc \in {"gcf_read", "gcf_fetch"}
          /\ proc[q].pc \in {"gcf_read", "gcf_fetch"}
          /\ proc[p].key = proc[q].key
          /\ ~proc[p].force /\ ~proc[q].force
          /\ ~proc[p].freshAtCall /\ ~proc[q].freshAtCall )
        => /\ proc[p].invoked + proc[q].invoked <= 1
           /\ (proc[p].pc = "gcf_fetch" /\ proc[q].pc = "gcf_fetch")
                 => proc[p].invoked + proc[q].invoked = 1

\* C2: two getCachedOrFetch calls that awaited fetchFn for the same key at
\* the same time return the same value, or both throw.
C2_SingleFlightSharedOutcome ==
    \A p, q \in Procs :
        ( /\ p # q
          /\ IsGcf(p) /\ IsGcf(q)
          /\ Returned(p) /\ Returned(q)
          /\ q \in conc[p]
          /\ proc[p].coFetch /\ proc[q].coFetch
          /\ proc[p].key = proc[q].key )
        => proc[p].ret = proc[q].ret

\* C3: after two overlapping calls that stored entries for different keys and
\* both reported success, the cache document holds an entry for each key.
C3_NoLostCacheUpdate ==
    \A p, q \in Procs :
        ( /\ p # q
          /\ Returned(p) /\ Returned(q)
          /\ q \in conc[p]
          /\ Stored(p) /\ Stored(q)
          /\ proc[p].key # proc[q].key )
        => /\ Readable(cacheFile)
           /\ cacheFile.doc[proc[p].key] # NoEntry
           /\ cacheFile.doc[proc[q].key] # NoEntry

\* C6: a getCachedOrFetch call whose fetchFn failed is over, has thrown to its
\* caller, and has not written the cache file.
C6_FailedFetchNotCached ==
    \A p \in Procs :
        proc[p].fetchFailed
        => /\ proc[p].pc = "idle"
           /\ proc[p].ret = Threw
           /\ ~proc[p].wrote
           /\ proc[p].saved = "none"
C6_Witness ==
    \E p \in Procs :
        /\ proc[p].fetchFailed /\ proc[p].ret = Threw
        /\ Readable(cacheFile) /\ cacheFile.doc[proc[p].key] # NoEntry

\* C7: when getCachedOrFetch, not forced, reads the file while it holds a
\* fresh entry for the key, it returns the stored payload and does not invoke
\* fetchFn.
C7_HitSkipsFetch ==
    [][\A p \in Procs :
         ( /\ proc[p].pc = "gcf_read"
           /\ proc'[p].pc # "gcf_read"
           /\ Readable(cacheFile)
           /\ cacheFile.doc[proc[p].key] # NoEntry
           /\ now - cacheFile.doc[proc[p].key].timestamp < CACHE_DURATION )
         => /\ proc'[p].pc = "idle"
            /\ proc'[p].ret = cacheFile.doc[proc[p].key].data
            /\ proc'[p].invoked = 0]_vars

\* C8: a getCachedOrFetch call returns without fetchFn only when it read a
\* fresh entry for its key, so a miss (no entry, or an expired one) and a
\* forced refresh reach fetchFn. A call that runs alone and whose fetchFn
\* resolves has invoked fetchFn once and returns the fetched value; when its
\* write succeeds the document then holds for the key exactly that value with
\* the timestamp the call took, which is not in the future, and getFromCache
\* returns the value at every time within CACHE_DURATION of that timestamp.
C8_MissFetchesAndPersists ==
    [][\A p \in Procs :
         /\ ( /\ IsGcf(p)
              /\ proc[p].pc = "gcf_read"
              /\ proc'[p].pc = "idle" )
            => /\ ~proc[p].force
               /\ cacheFile.st = "ok"
               /\ cacheFile.doc[proc[p].key] # NoEntry
               /\ now - cacheFile.doc[proc[p].key].timestamp < CACHE_DURATION
               /\ proc'[p].invoked = 0
         /\ ( /\ IsGcf(p)
              /\ proc[p].pc \in {"stc_init_write", "stc_read", "stc_write"}
              /\ proc'[p].pc = "idle"
              /\ conc[p] = {} )
            =>
            /\ proc'[p].invoked = 1
            /\ proc'[p].ret = proc[p].data
            /\ proc'[p].saved = "ok" =>
                 /\ Readable(cacheFile')
                 /\ cacheFile'.doc[proc[p].key] =
                      [timestamp |-> proc[p].stamp, data |-> proc[p].data]
                 /\ proc[p].stamp <= now /\ proc[p].stamp >= 0
                 /\ \A i \in 0..MaxTicks :
                      (i * ClockStep >= proc[p].stamp
                       /\ i * ClockStep - proc[p].stamp < CACHE_DURATION)
                      => GetFromCacheResult(cacheFile', proc[p].key, i * ClockStep)
                           = proc[p].data]_vars
\* a forced refresh, alone, has replaced an older entry of its key
C8_Witness ==
    \E p \in Procs :
        /\ IsGcf(p) /\ Returned(p) /\ conc[p] = {}
        /\ proc[p].force /\ proc[p].freshAtCall
        /\ proc[p].saved = "ok" /\ proc[p].invoked = 1
        /\ Readable(cacheFile)
        /\ cacheFile.doc[proc[p].key] = [timestamp |-> now, data |-> proc[p].ret]
        /\ now > 0

\* C9: when saveToCache(k, v) returns true, getFromCache(k) at that moment
\* returns v; and saveToCache returns false only when a writeFile was rejected
\* or the file could not be parsed.
C9_PutGetRoundTrip ==
    [][\A p \in Procs :
         ( /\ proc[p].op = "saveToCache"
           /\ InFlight(p)
           /\ proc'[p].pc = "idle" )
         => /\ proc'[p].ret = "true" =>
                 GetFromCacheResult(cacheFile', proc[p].key, now') = proc[p].data
            /\ proc'[p].ret = "false" =>
                 \/ proc[p].pc \in {"stc_init_write", "stc_write"}
                 \/ cacheFile.st # "ok"
            /\ proc'[p].ret \in {"true", "false"}]_vars
\* a put that replaced an entry of its key in a document holding another key
C9_Witness ==
    \E p \in Procs :
        /\ proc[p].op = "saveToCache" /\ Returned(p) /\ proc[p].ret = "true"
        /\ proc[p].freshAtCall
        /\ \A k \in Keys : Readable(cacheFile) /\ cacheFile.doc[k] # NoEntry
        /\ GetFromCacheResult(cacheFile, proc[p].key, now) = "meal"

\* C10: getFromCache(k) returns the stored payload when the file holds an
\* entry for k with now - timestamp < CACHE_DURATION, and null otherwise; it
\* returns null once CACHE_DURATION has passed since the latest timestamp
\* stored for k.
C10_FreshnessRule ==
    [][\A p \in Procs :
         ( /\ proc[p].op = "getFromCache"
           /\ InFlight(p)
           /\ proc'[p].pc = "idle" )
         => LET e == cacheFile.doc[proc[p].key] IN
            /\ proc'[p].ret =
                 IF cacheFile.st = "ok" /\ e # NoEntry
                    /\ now - e.timestamp < CACHE_DURATION
                 THEN e.data ELSE Null
            /\ now - lastStored[proc[p].key] >= CACHE_DURATION
                 => proc'[p].ret = Null]_vars
\* an entry read at the age of exactly CACHE_DURATION
C10_Witness ==
    \E p \in Procs :
        /\ proc[p].op = "getFromCache" /\ Returned(p) /\ proc[p].ret = Null
        /\ Readable(cacheFile)
        /\ cacheFile.doc[proc[p].key] # NoEntry
        /\ cacheFile.doc[proc[p].key].data = "meal"
        /\ now - cacheFile.doc[proc[p].key].timestamp = CACHE_DURATION

\* C11: a clearExpiredCache call that runs alone on a parseable document, its
\* writeFile not rejected, leaves in the document exactly the entries with
\* now - timestamp < CACHE_DURATION, each one unchanged, returns the number of
\* entries with now - timestamp >= CACHE_DURATION, and writes the file only
\* when that number is positive. On an absent or unparseable file it returns 0
\* and leaves the file as it is.
C11_SweepRemovesExactlyExpired ==
    [][\A p \in Procs :
         ( /\ proc[p].op = "clearExpiredCache"
           /\ InFlight(p)
           /\ proc'[p].pc = "idle"
           /\ conc[p] = {}
           /\ ~(proc[p].pc = "cec_write" /\ ~proc'[p].wrote) )
         => LET old == {k \in Keys :
                          /\ cacheFile.doc[k] # NoEntry
                          /\ now - cacheFile.doc[k].timestamp >= CACHE_DURATION} IN
            IF cacheFile.st = "ok"
            THEN /\ cacheFile'.st = "ok"
                 /\ \A k \in old : cacheFile'.doc[k] = NoEntry
                 /\ \A k \in Keys \ old : cacheFile'.doc[k] = cacheFile.doc[k]
                 /\ proc'[p].ret = ToString(Cardinality(old))
                 /\ proc'[p].wrote <=> old # {}
                 /\ \A k \in Keys :
                      cacheFile'.doc[k] # NoEntry
                      <=> ( /\ cacheFile.doc[k] # NoEntry
                            /\ now - cacheFile.doc[k].timestamp < CACHE_DURATION )
            ELSE /\ cacheFile' = cacheFile
                 /\ proc'[p].ret = ToString(0)
                 /\ ~proc'[p].wrote]_vars
\* a sweep, alone, has removed an entry of age exactly CACHE_DURATION and kept
\* a younger one
C11_Witness ==
    \E p \in Procs :
        /\ proc[p].op = "clearExpiredCache" /\ Returned(p) /\ conc[p] = {}
        /\ proc[p].ret = ToString(1) /\ proc[p].wrote
        /\ Readable(cacheFile)
        /\ \E k \in Keys : cacheFile.doc[k] = NoEntry /\ now - lastStored[k] = CACHE_DURATION
        /\ \E k \in Keys : cacheFile.doc[k] # NoEntry

\* C16: no step of a getFromCache call changes the cache file, so an entry it
\* found expired (and answered null for) is still there with its payload and
\* timestamp; and a step that changes or removes an expired entry is a step of
\* clearExpiredCache, saveToCache or getCachedOrFetch.
C16_LazyExpiry ==
    [][/\ \A p \in Procs :
            ( /\ proc[p].op = "getFromCache"
              /\ InFlight(p)
              /\ proc'[p] # proc[p] )
            => cacheFile' = cacheFile
       /\ \A k \in Keys :
            ( /\ cacheFile.st = "ok"
              /\ cacheFile.doc[k] # NoEntry
              /\ now - cacheFile.doc[k].timestamp >= CACHE_DURATION
              /\ (cacheFile'.st # "ok" \/ cacheFile'.doc[k] # cacheFile.doc[k]) )
            => \E p \in Procs :
                 /\ InFlight(p) /\ proc'[p] # proc[p]
                 /\ proc[p].op \in {"clearExpiredCache", "saveToCache",
                                    "getCachedOrFetch"}]_vars
\* getFromCache has answered null for an expired entry, which the file still
\* holds as it was stored
C16_Witness ==
    \E p \in Procs :
        /\ proc[p].op = "getFromCache" /\ Returned(p) /\ proc[p].ret = Null
        /\ ~proc[p].wrote
        /\ Readable(cacheFile)
        /\ cacheFile.doc[proc[p].key] = [timestamp |-> 0, data |-> "meal"]
        /\ now - cacheFile.doc[proc[p].key].timestamp >= CACHE_DURATION

\* C18: a saveToCache(k, v) call that runs alone on a parseable document, its
\* writeFile not rejected, returns true and leaves the document with the one
\* entry {timestamp: now, data: v} for k, in place of the entry k had if it
\* had one, and with the entry of every other key as it was, payload and
\* timestamp.
C18_UpsertFrame ==
    [][\A p \in Procs :
         ( /\ proc[p].op = "saveToCache"
           /\ InFlight(p)
           /\ proc'[p].pc = "idle"
           /\ conc[p] = {}
           /\ cacheFile.st = "ok"
           /\ ~SaveToCacheWriteFails(p) )
         => /\ proc'[p].ret = "true"
            /\ cacheFile'.st = "ok"
            /\ cacheFile'.doc[proc[p].key] = [timestamp |-> now, data |-> proc[p].data]
            /\ \A k \in Keys \ {proc[p].key} : cacheFile'.doc[k] = cacheFile.doc[k]]_vars
\* a put, alone, has replaced the entry of its key by one stamped now, beside
\* an older entry of the other key
C18_Witness ==
    \E p \in Procs :
        /\ proc[p].op = "saveToCache" /\ Returned(p) /\ conc[p] = {}
        /\ proc[p].ret = "true" /\ proc[p].freshAtCall
        /\ Readable(cacheFile)
        /\ cacheFile.doc[proc[p].key].timestamp = now /\ now > 0
        /\ \E k \in Keys \ {proc[p].key} :
             cacheFile.doc[k] # NoEntry /\ cacheFile.doc[k].timestamp < now

\* C23: when saveToCache fails inside getCachedOrFetch (a writeFile rejected,
\* or the file unreadable), the call still returns the value fetchFn resolved
\* to, and throws nothing; the step leaves the file as it is, and a call that
\* ran alone has written at most the empty document initializeCache creates.
C23_SaveFailureStillReturns ==
    [][\A p \in Procs :
         ( /\ IsGcf(p)
           /\ proc[p].pc \in {"stc_init_write", "stc_read", "stc_write"}
           /\ proc'[p] # proc[p]
           /\ \/ InitializeCacheWriteFails(p)
              \/ SaveToCacheWriteFails(p)
              \/ proc[p].pc = "stc_read" /\ cacheFile.st # "ok" )
         => /\ proc'[p].pc = "idle"
            /\ proc'[p].ret = proc[p].data
            /\ proc'[p].ret \in Payloads
            /\ proc'[p].saved = "fail"
            /\ proc'[p].invoked = 1
            /\ cacheFile' = cacheFile
            /\ (conc[p] = {} /\ proc'[p].wrote) => cacheFile = JsonFile(EmptyCache)]_vars
\* a call, alone, has returned the recipe it fetched although the file could
\* not be parsed, and the file is as it was
C23_Witness ==
    \E p \in Procs :
        /\ IsGcf(p) /\ Returned(p) /\ conc[p] = {}
        /\ proc[p].saved = "fail" /\ proc[p].ret = "meal" /\ proc[p].invoked = 1
        /\ cacheFile = CorruptFile

\* --------------------------------------------------- favorites: claims
IsFavMutation(p) == proc[p].op \in {"addFavorite", "removeFavorite"}
\* the effect of the call of p is in the favorites document
Reflected(p) ==
    /\ ReadableFavorites(favFile)
    /\ IF proc[p].op = "addFavorite"
       THEN \E i \in 1..Len(favFile.list) : favFile.list[i] = proc[p].recipe
       ELSE ~Some(favFile.list, proc[p].recipeId)

\* C4: after two overlapping calls, two addFavorite or an addFavorite and a
\* removeFavorite, on different identifiers, that both returned true, the
\* favorites document shows both effects.
C4_NoLostFavoritesUpdate ==
    \A p, q \in Procs :
        ( /\ p # q
          /\ Returned(p) /\ Returned(q)
          /\ q \in conc[p]
          /\ IsFavMutation(p) /\ IsFavMutation(q)
          /\ proc[p].op = "addFavorite"
          /\ proc[p].ret = "true" /\ proc[q].ret = "true"
          /\ proc[p].recipeId # proc[q].recipeId )
        => Reflected(p) /\ Reflected(q)

\* C5: no two records of the favorites document have the same idMeal.
C5_UniqueIdentifiers ==
    ReadableFavorites(favFile) =>
        \A i, j \in 1..Len(favFile.list) :
            favFile.list[i].idMeal = favFile.list[j].idMeal => i = j
\* two overlapping addFavorite calls for the same recipe have both returned
\* true, and the document holds two records
C5_Witness ==
    /\ ReadableFavorites(favFile) /\ Len(favFile.list) = 2
    /\ \E p, q \in Procs :
         /\ p # q /\ q \in conc[p]
         /\ Returned(p) /\ Returned(q)
         /\ proc[p].op = "addFavorite" /\ proc[q].op = "addFavorite"
         /\ proc[p].recipeId = proc[q].recipeId
         /\ proc[p].ret = "true" /\ proc[q].ret = "true"

\* C12: an addFavorite(r) call that runs alone, no writeFile of it rejected,
\* on a document with no record of r.idMeal (an unparseable file counting as
\* the empty list) returns true and leaves the file holding the previous
\* records in their order followed by r, one record more than before, and
\* isInFavorites(r.idMeal) is then true.
C12_AddNewAppends ==
    [][\A p \in Procs :
         ( /\ proc[p].op = "addFavorite"
           /\ InFlight(p)
           /\ proc'[p].pc = "idle"
           /\ conc[p] = {}
           /\ ~FavoritesWriteFails(p)
           /\ ~InitializeFavoritesWriteFails(p)
           /\ \A i \in 1..Len(GetFavoritesResult(favFile)) :
                GetFavoritesResult(favFile)[i].idMeal # proc[p].recipe.idMeal )
         => LET before == GetFavoritesResult(favFile)
                after == GetFavoritesResult(favFile') IN
            /\ proc'[p].ret = "true"
            /\ favFile'.st = "ok"
            /\ Len(after) = Len(before) + 1
            /\ \A i \in 1..Len(before) : after[i] = before[i]
            /\ after[Len(after)] = proc[p].recipe
            /\ IsInFavoritesResult(favFile', proc[p].recipe.idMeal)]_vars
\* a new recipe has been added, alone, behind an existing record
C12_Witness ==
    \E p \in Procs :
        /\ proc[p].op = "addFavorite" /\ Returned(p) /\ conc[p] = {}
        /\ proc[p].ret = "true"
        /\ ReadableFavorites(favFile) /\ Len(favFile.list) = 2
        /\ favFile.list[2] = proc[p].recipe
        /\ favFile.list[1].idMeal # proc[p].recipe.idMeal

\* C13: when addFavorite(r) reads a favorites file that holds a record with
\* r.idMeal, it returns false and the file stays as it is: the same records
\* with the same attributes in the same order. A call that ran alone has then
\* written nothing at all.
C13_AddExistingIsNoOp ==
    [][\A p \in Procs :
         ( /\ proc[p].op = "addFavorite"
           /\ proc[p].pc = "gf_read"
           /\ proc'[p].pc # "gf_read"
           /\ favFile.st = "ok"
           /\ \E i \in 1..Len(favFile.list) :
                favFile.list[i].idMeal = proc[p].recipe.idMeal )
         => /\ proc'[p].pc = "idle"
            /\ proc'[p].ret = "false"
            /\ favFile' = favFile
            /\ conc[p] = {} => ~proc'[p].wrote]_vars
\* a recipe with other attributes under an identifier that is the second
\* record of the list has been refused, alone
C13_Witness ==
    \E p \in Procs :
        /\ proc[p].op = "addFavorite" /\ Returned(p) /\ conc[p] = {}
        /\ proc[p].ret = "false" /\ ~proc[p].wrote
        /\ ReadableFavorites(favFile) /\ Len(favFile.list) = 2
        /\ favFile.list[2].idMeal = proc[p].recipe.idMeal
        /\ favFile.list[2].strMeal # proc[p].recipe.strMeal

\* C14: a removeFavorite(id) call that runs alone, no writeFile of it
\* rejected, returns false and leaves the file as it is when the list holds no
\* record with id (the only write it can have made is the creation of the
\* empty file); otherwise it returns true and the file then holds exactly the
\* records with another identifier, in their previous order.
C14_RemoveContract ==
    [][\A p \in Procs :
         ( /\ proc[p].op = "removeFavorite"
           /\ InFlight(p)
           /\ proc'[p].pc = "idle"
           /\ conc[p] = {}
           /\ ~FavoritesWriteFails(p)
           /\ ~InitializeFavoritesWriteFails(p) )
         => LET before == GetFavoritesResult(favFile)
                after == GetFavoritesResult(favFile')
                kept == {i \in 1..Len(before) : before[i].idMeal # proc[p].recipeId} IN
            IF kept = 1..Len(before)
            THEN /\ proc'[p].ret = "false"
                 /\ favFile' = favFile
                 /\ proc'[p].wrote => favFile = JsonFavorites(<<>>)
            ELSE /\ proc'[p].ret = "true"
                 /\ favFile'.st = "ok"
                 /\ Len(after) = Cardinality(kept)
                 /\ \A i \in kept :
                      after[Cardinality({j \in kept : j <= i})] = before[i]
                 /\ \A i \in 1..Len(after) : after[i].idMeal # proc[p].recipeId]_vars
\* the middle record of three has been removed, alone: the two others are
\* left in their order
C14_Witness ==
    \E p \in Procs :
        /\ proc[p].op = "removeFavorite" /\ Returned(p) /\ conc[p] = {}
        /\ proc[p].ret = "true" /\ proc[p].recipeId = "52772"
        /\ ReadableFavorites(favFile) /\ Len(favFile.list) = 2
        /\ favFile.list[1].idMeal = "52773"
        /\ favFile.list[2].idMeal = "52774"

IsFavQuery(p) == proc[p].op \in {"isInFavorites", "getFavoriteById", "getFavorites"}
\* C15: no step of an isInFavorites, getFavoriteById or getFavorites call
\* changes the records held in the favorites file, whatever runs beside it; so
\* no record that a completed addFavorite wrote is lost to a query in flight.
C15_QueriesArePure ==
    [][\A p \in Procs :
         ( /\ IsFavQuery(p)
           /\ InFlight(p)
           /\ proc'[p] # proc[p] )
         => GetFavoritesResult(favFile') = GetFavoritesResult(favFile)]_vars

\* -------------------------------------------------- both documents: claims
\* C17: on a file that exists and cannot be parsed, a call that runs alone,
\* no writeFile of it rejected, acts as on the empty document: saveToCache(k, v)
\* returns true and getFromCache(k) then returns v; addFavorite(r) returns true
\* and the favorites file then holds the list [r].
C17_CorruptDocumentRecovered ==
    [][\A p \in Procs :
         /\ ( /\ proc[p].op = "saveToCache"
              /\ InFlight(p)
              /\ proc'[p].pc = "idle"
              /\ conc[p] = {}
              /\ cacheFile.st = "corrupt"
              /\ ~SaveToCacheWriteFails(p)
              /\ ~InitializeCacheWriteFails(p) )
            => /\ proc'[p].ret = "true"
               /\ GetFromCacheResult(cacheFile', proc[p].key, now') = proc[p].data
         /\ ( /\ proc[p].op = "addFavorite"
              /\ proc[p].pc = "fav_write"
              /\ proc'[p].pc = "idle"
              /\ conc[p] = {}
              /\ favFile.st = "corrupt"
              /\ ~FavoritesWriteFails(p) )
            => /\ proc'[p].ret = "true"
               /\ favFile' = JsonFavorites(<<proc[p].recipe>>)]_vars

\* the call of p returns in this step
ReturnsNow(p) == InFlight(p) /\ proc'[p].pc = "idle"
\* the call of p returns a result of its function, not an exception; false
\* (0 for clearExpiredCache) when a writeFile of it was rejected, and when
\* saveToCache, clearExpiredCache or removeFavorite could not read or parse the
\* file; null or false when the key or the identifier is not in the document
FailureIsResult(p) ==
    LET op == proc[p].op
        r == proc'[p].ret IN
    /\ op \in {"saveToCache", "addFavorite", "removeFavorite", "isInFavorites"}
         => r \in {"true", "false"}
    /\ op = "clearExpiredCache" => r \in {ToString(n) : n \in 0..Cardinality(Keys)}
    /\ op = "getFromCache" => r \in Payloads
    /\ op = "getFavoriteById" => r \in {"found", Null}
    /\ op = "getFavorites" => r = "list"
    /\ ( /\ op = "saveToCache"
         /\ \/ SaveToCacheWriteFails(p) \/ InitializeCacheWriteFails(p)
            \/ proc[p].pc = "stc_read" /\ cacheFile.st # "ok" )
         => r = "false" /\ cacheFile' = cacheFile
    /\ ( /\ op = "clearExpiredCache"
         /\ \/ ClearExpiredCacheWriteFails(p)
            \/ proc[p].pc = "cec_read" /\ cacheFile.st # "ok" )
         => r = ToString(0) /\ cacheFile' = cacheFile
    /\ ( /\ op \in {"addFavorite", "removeFavorite"}
         /\ FavoritesWriteFails(p) \/ InitializeFavoritesWriteFails(p) )
         => r = "false" /\ favFile' = favFile
    /\ ( /\ op = "removeFavorite"
         /\ proc[p].pc = "gf_read" /\ favFile.st # "ok" )
         => r = "false" /\ favFile' = favFile
    /\ ( /\ op = "getFromCache"
         /\ cacheFile.st # "ok" \/ cacheFile.doc[proc[p].key] = NoEntry )
         => r = Null
    /\ ( /\ op \in {"getFavoriteById", "isInFavorites", "removeFavorite"}
         /\ proc[p].pc = "gf_read"
         /\ \A i \in 1..Len(favFile.list) : favFile.list[i].idMeal # proc[p].recipeId )
         => /\ r = IF op = "getFavoriteById" THEN Null ELSE "false"
            /\ proc'[p].retList = <<>>
            /\ favFile' = favFile
\* addFavorite is about to return and the file it had to read cannot be parsed
ReadFailedInAdd(p) ==
    proc[p].op = "addFavorite" /\ proc[p].pc = "fav_write" /\ favFile.st = "corrupt"

\* C19 (as stated): a call returns a result, not an exception, when a write
\* or a read of its file fails: saveToCache, addFavorite and removeFavorite
\* return false and clearExpiredCache returns 0; and a key or identifier that
\* is not there gives null or false from getFromCache, getFavoriteById,
\* removeFavorite and isInFavorites.
C19_FailuresAreResults ==
    [][\A p \in Procs :
         ReturnsNow(p)
         => /\ FailureIsResult(p)
            /\ ReadFailedInAdd(p) => proc'[p].ret = "false"]_vars

\* C19 (amended): the same, except that addFavorite does not report a failed
\* read: getFavorites answers it with the empty list, so addFavorite returns
\* false only when its writeFile is rejected and otherwise returns true,
\* leaving the file holding the list [r].
C19_FailuresAreResultsAmended ==
    [][\A p \in Procs :
         ReturnsNow(p)
         => /\ FailureIsResult(p)
            /\ ReadFailedInAdd(p)
                 => IF FavoritesWriteFails(p)
                    THEN proc'[p].ret = "false" /\ favFile' = favFile
                    ELSE /\ proc'[p].ret = "true"
                         /\ favFile' = JsonFavorites(<<proc[p].recipe>>)]_vars
\* addFavorite, alone, has returned false on a file that could neither be
\* parsed nor written
C19_Witness ==
    \E p \in Procs :
        /\ proc[p].op = "addFavorite" /\ Returned(p) /\ conc[p] = {}
        /\ proc[p].ret = "false"
        /\ favFile = CorruptFavorites

\* C20: whatever value a provider resolves to, a fallback for a failed or
\* timed-out request included, a getCachedOrFetch call that runs alone returns
\* it and, its write succeeding, leaves it in the document under the key with
\* the timestamp the call took, as it does a genuine result; and a later
\* getCachedOrFetch call, not forced, that reads the file while it holds such
\* a fallback that is truthy, less than CACHE_DURATION old, returns it without
\* invoking fetchFn.
C20_FallbacksPersistedAndServed ==
    [][\A p \in Procs :
         /\ ( /\ IsGcf(p)
              /\ proc[p].pc = "stc_write"
              /\ proc'[p].pc = "idle"
              /\ conc[p] = {} )
            => /\ proc'[p].ret = proc[p].data
               /\ ~SaveToCacheWriteFails(p)
                    => /\ proc'[p].saved = "ok"
                       /\ cacheFile' = JsonFile([cacheFile.doc EXCEPT ![proc[p].key] =
                                                   [timestamp |-> proc[p].stamp,
                                                    data |-> proc[p].data]])
         /\ ( /\ IsGcf(p)
              /\ proc[p].pc = "gcf_read"
              /\ proc'[p].pc # "gcf_read"
              /\ cacheFile.st = "ok"
              /\ cacheFile.doc[proc[p].key].data \in Fallbacks \ {Null}
              /\ now - cacheFile.doc[proc[p].key].timestamp < CACHE_DURATION )
            => /\ proc'[p].pc = "idle"
               /\ proc'[p].ret = cacheFile.doc[proc[p].key].data
               /\ proc'[p].invoked = 0]_vars
\* the string a timed-out getMealsByIngredient returned is in the document and
\* has been served from there, within CACHE_DURATION, without a fetch
C20_Witness ==
    \E p \in Procs :
        /\ IsGcf(p) /\ Returned(p) /\ proc[p].invoked = 0
        /\ proc[p].ret = "took too long"
        /\ Readable(cacheFile)
        /\ cacheFile.doc[proc[p].key].data = "took too long"
        /\ now - cacheFile.doc[proc[p].key].timestamp < CACHE_DURATION

\* C21: of two overlapping addFavorite calls for the same identifier, at most
\* one returns true.
C21_ConcurrentAddOnce ==
    \A p, q \in Procs :
        ( /\ p # q
          /\ Returned(p) /\ Returned(q)
          /\ q \in conc[p]
          /\ proc[p].op = "addFavorite" /\ proc[q].op = "addFavorite"
          /\ proc[p].recipe.idMeal = proc[q].recipe.idMeal )
        => ~(proc[p].ret = "true" /\ proc[q].ret = "true")

\* C22: the writeFile of initializeCache or initializeFavorites, called by the
\* application or from inside saveToCache, getFavorites, addFavorite or
\* removeFavorite, changes the file only when the file is absent: it never
\* replaces an existing document, whatever ran since the call's fs.access.
C22_InitializeKeepsData ==
    [][\A p \in Procs :
         /\ ( /\ proc[p].pc \in {"ic_write", "stc_init_write"}
              /\ proc'[p] # proc[p]
              /\ cacheFile' # cacheFile )
            => cacheFile.st = "absent"
         /\ ( /\ proc[p].pc \in {"if_write", "gf_write"}
              /\ proc'[p] # proc[p]
              /\ favFile' # favFile )
            => favFile.st = "absent"]_vars

\* ------------------------------------------------- getMealById: claims
IsGmb(p) == proc[p].op = "getMealById"
\* C24: getMealById(id, attempts) with attempts >= 1 calls fetch at most
\* attempts times; a request that succeeds ends the call with its result (the
\* meal, or null when the response has none) and no further request; a request
\* that fails is followed by the next one no earlier than RETRY_DELAY later;
\* when all attempts requests have failed the call returns null; it never
\* throws; and every call returns.
C24_BoundedRetry ==
    /\ [][\A p \in Procs :
            IsGmb(p)' =>
              /\ proc'[p].requests <= proc'[p].asked
              /\ proc'[p].ret # Threw
              /\ ( /\ proc[p].pc = "gmb_fetch"
                   /\ \E o \in {"found", "empty"} : FetchResponds(p, o) )
                 => /\ proc'[p].pc = "idle"
                    /\ proc'[p].ret \in {"meal", Null}
                    /\ proc'[p].requests = proc[p].requests
              /\ ( /\ proc[p].pc = "gmb_wait"
                   /\ proc'[p].requests = proc[p].requests + 1 )
                 => now' - proc[p].failedAt >= RETRY_DELAY
              /\ ( /\ InFlight(p) /\ proc'[p].pc = "idle"
                   /\ proc'[p].failures = proc'[p].requests )
                 => /\ proc'[p].ret = Null
                    /\ proc'[p].requests = proc'[p].asked
              /\ ( /\ proc'[p].pc = "gmb_fetch"
                   /\ proc'[p].requests > 1 )
                 => proc'[p].failures = proc'[p].requests - 1]_vars
    /\ \A p \in Procs : InFlight(p) ~> ~InFlight(p)
\* a call with the default attempts has returned null after two requests,
\* both failed, the second one RETRY_DELAY after the first
C24_Witness ==
    \E p \in Procs :
        /\ IsGmb(p) /\ Returned(p)
        /\ proc[p].asked = DefaultAttempts
        /\ proc[p].requests = 2 /\ proc[p].failures = 2
        /\ proc[p].ret = Null
        /\ now >= RETRY_DELAY

====
